---- MODULE Spec2Model ----
(***************************************************************************)
(* Multi-word anagram solver (src/src/lib.rs).                             *)
(*                                                                         *)
(* Text is modelled as the code sees it: a sequence of bytes (ASCII codes, *)
(* 97 = 'a', 65 = 'A', 32 = ' ', 49 = '1', 124 = '|').  Rust indices are   *)
(* 0-based, the sequences here are 1-based, so candidate-table index k of  *)
(* the code is index k + 1 here.  A letter multiset is a function on       *)
(* 0 .. 25 of u8 counters.                                                 *)
(***************************************************************************)
EXTENDS Integers, Sequences, FiniteSets

VARIABLES
    target,           \* the phrase handed to solve_anagrams
    DICTIONARY,       \* the embedded word list, already split in lines
    max_results,      \* the result cap handed to find_anagrams_recursive
    pc,               \* position of solve_anagrams
    dictionary,       \* the normalised, filtered word list
    target_freq,      \* letter multiset of the target
    target_len,       \* number of letters of the target
    dict_words,       \* the candidate table
    results,          \* the raw (later ranked) solution list
    current,          \* the shared partial word sequence
    seen_signatures,  \* signatures of the recorded solutions
    stack,            \* the active frames of find_anagrams_recursive
    all_anagrams,     \* the returned phrases
    words_a,          \* calculate_quality_score: first argument under test
    words_b,          \* calculate_quality_score: second argument under test
    score_a,          \* its score
    score_b           \* its score

vars == <<target, DICTIONARY, max_results, pc, dictionary, target_freq,
          target_len, dict_words, results, current, seen_signatures, stack,
          all_anagrams, words_a, words_b, score_a, score_b>>

-----------------------------------------------------------------------------
(* Program constants *)

U8 == 256
ALPHABET == 26
DEFAULT_MAX_RESULTS == 50000
PRESENTATION_LIMIT == 10000
SUBSTANTIAL_LEN == 4

(* Bounds of the explored inputs *)

MaxDictLines == 3
MaxCap == 2
MaxScoreWords == 14
MaxScoreLetters == 126

-----------------------------------------------------------------------------
(* Bytes and strings *)

Letters == 0 .. (ALPHABET - 1)

is_ascii_alphabetic(b) == (b >= 65 /\ b <= 90) \/ (b >= 97 /\ b <= 122)

to_ascii_lowercase(b) == IF b >= 65 /\ b <= 90 THEN b + 32 ELSE b

is_whitespace(b) == b \in {9, 10, 11, 12, 13, 32}

Rep(b, n) == [k \in 1 .. n |-> b]

trim(s) ==
    LET keep == {k \in DOMAIN s : ~is_whitespace(s[k])}
    IN  IF keep = {} THEN <<>>
        ELSE LET lo == CHOOSE k \in keep :
                           \A j \in 1 .. (k - 1) : is_whitespace(s[j])
                 hi == CHOOSE k \in keep :
                           \A j \in (k + 1) .. Len(s) : is_whitespace(s[j])
             IN  SubSeq(s, lo, hi)

to_lowercase(s) == [k \in DOMAIN s |-> to_ascii_lowercase(s[k])]

\* byte-wise lexicographic order of String
StrLess(a, b) ==
    \E k \in 1 .. Len(b) :
        /\ \A j \in 1 .. (k - 1) : j <= Len(a) /\ a[j] = b[j]
        /\ (k > Len(a) \/ a[k] < b[k])

RECURSIVE join(_, _)
join(ws, sep) ==
    IF Len(ws) = 0 THEN <<>>
    ELSE IF Len(ws) = 1 THEN ws[1]
    ELSE ws[1] \o sep \o join(Tail(ws), sep)

\* the elements of seq at the positions `chosen`, in order
Pick(seq, chosen) ==
    LET nth(p) == CHOOSE k \in chosen : Cardinality({j \in chosen : j < k}) = p - 1
    IN  [p \in 1 .. Cardinality(chosen) |-> seq[nth(p)]]

\* stable sort of seq by ascending keys, keys[k] being the key of seq[k]
StableSortByKey(seq, keys) ==
    LET pos(j) == 1 + Cardinality({m \in DOMAIN seq :
                        \/ keys[m] < keys[j]
                        \/ (keys[m] = keys[j] /\ m < j)})
    IN  [p \in DOMAIN seq |-> seq[CHOOSE j \in DOMAIN seq : pos(j) = p]]

\* sort() of a list of strings
SortStrings(ws) ==
    StableSortByKey(ws, [k \in DOMAIN ws |->
        Cardinality({m \in DOMAIN ws : StrLess(ws[m], ws[k])})])

-----------------------------------------------------------------------------
(* Letter multisets *)

\* number of bytes of s that are the letter k, in either case
LetterOccurrences(s, k) ==
    Cardinality({p \in DOMAIN s :
        is_ascii_alphabetic(s[p]) /\ to_ascii_lowercase(s[p]) - 97 = k})

\* the u8 counters wrap when the build does not check overflow
compute_frequency(s) == [k \in Letters |-> LetterOccurrences(s, k) % U8]

\* `freq[..] += 1` overflows the u8 counter
frequency_overflows(s) == \E k \in Letters : LetterOccurrences(s, k) >= U8

can_use_word(word_freq, available) ==
    \A k \in Letters : word_freq[k] <= available[k]

subtract_letters(available, word_freq) ==
    [k \in Letters |-> (available[k] - word_freq[k]) % U8]

RECURSIVE SumUpTo(_, _)
SumUpTo(freq, k) == IF k < 0 THEN 0 ELSE freq[k] + SumUpTo(freq, k - 1)

count_remaining(freq) == SumUpTo(freq, ALPHABET - 1)

-----------------------------------------------------------------------------
(* Quality score *)

RECURSIVE SumSeq(_)
SumSeq(s) == IF Len(s) = 0 THEN 0 ELSE s[1] + SumSeq(Tail(s))

Abs(x) == IF x < 0 THEN 0 - x ELSE x

\* the penalty with its sign slipped
word_count_reward(num_words) == 0 - num_words * 1000

word_count_penalty(num_words) == num_words * 1000

length_bonus(avg_word_len) == avg_word_len * 100

variance_penalty(words, avg_word_len) ==
    IF Len(words) > 1
    THEN 5 * SumSeq([k \in DOMAIN words |-> Abs(Len(words[k]) - avg_word_len)])
    ELSE 0

calculate_quality_score(words) ==
    LET num_words == Len(words)
        total_len == SumSeq([k \in DOMAIN words |-> Len(words[k])])
        avg_word_len == IF num_words > 0 THEN total_len \div num_words ELSE 0
    IN  length_bonus(avg_word_len) - word_count_penalty(num_words)
            - variance_penalty(words, avg_word_len)

-----------------------------------------------------------------------------
(* Redundancy filter *)

IsSubstantial(w) == Len(w) >= SUBSTANTIAL_LEN

create_signature(words) ==
    join(SortStrings(Pick(words, {k \in DOMAIN words : IsSubstantial(words[k])})),
         <<124>>)

\* no branch is ever redundant
never_redundant(cur, new_word, seen) == FALSE

would_be_redundant(cur, new_word, seen) ==
    LET sig == create_signature(Append(cur, new_word))
    IN  IF sig = <<>> THEN FALSE ELSE sig \in seen

-----------------------------------------------------------------------------
(* Dictionary preprocessing, ranking and presentation *)

IsUsableLine(s) ==
    Len(s) > 0 /\ \A k \in DOMAIN s : is_ascii_alphabetic(s[k])

NormaliseLine(s) == to_lowercase(trim(s))

\* DICTIONARY.lines().map(trim + lowercase).filter(non-empty, alphabetic)
ParseDictionary(lines) ==
    LET mapped == [k \in DOMAIN lines |-> NormaliseLine(lines[k])]
    IN  Pick(mapped, {k \in DOMAIN mapped : IsUsableLine(mapped[k])})

Candidate(w) ==
    LET freq == compute_frequency(w)
    IN  [word |-> w, word_freq |-> freq, word_len |-> count_remaining(freq)]

\* `b.2.cmp(&a.2)`: the longer word first
LengthKey(c) == 0 - c.word_len

Fits(c, tfreq, tlen) == c.word_len <= tlen /\ can_use_word(c.word_freq, tfreq)

\* the candidate table: annotate, filter against the target, sort by length
PreprocessDictionary(dict, tfreq, tlen) ==
    LET annotated == [k \in DOMAIN dict |-> Candidate(dict[k])]
        kept == Pick(annotated,
                     {k \in DOMAIN annotated : Fits(annotated[k], tfreq, tlen)})
    IN  StableSortByKey(kept, [k \in DOMAIN kept |-> LengthKey(kept[k])])

\* the comparison the wrong way round: the lower score first
AscendingScoreKey(r) == r.score

\* `b.0.cmp(&a.0)`: the higher score first
ScoreKey(r) == 0 - r.score

SortByScore(res) == StableSortByKey(res, [k \in DOMAIN res |-> ScoreKey(res[k])])

Phrase(r) == join(r.words, <<32>>)

\* no deduplication
KeepAllPhrases(phrases) == phrases

\* keep the first occurrence of every phrase text
Dedup(phrases) ==
    LET first == {k \in DOMAIN phrases :
                     \A j \in 1 .. (k - 1) : phrases[j] # phrases[k]}
        nth(p) == CHOOSE k \in first : Cardinality({j \in first : j < k}) = p - 1
    IN  [p \in 1 .. Cardinality(first) |-> phrases[nth(p)]]

Take(seq, n) == IF Len(seq) <= n THEN seq ELSE SubSeq(seq, 1, n)

-----------------------------------------------------------------------------
(* Search: the pieces of find_anagrams_recursive *)

Max(a, b) == IF a >= b THEN a ELSE b
Min(a, b) == IF a <= b THEN a ELSE b

MinWordLen(depth, remaining_letters) ==
    IF depth = 0 THEN 1
    ELSE IF depth = 1
    THEN Min(Max((remaining_letters * 4) \div 10, 2), remaining_letters)
    ELSE IF depth = 2
    THEN Min(Max((remaining_letters * 5) \div 10, 3), remaining_letters)
    ELSE Min(Max((remaining_letters * 6) \div 10, 3), remaining_letters)

\* `results.len() >= max_results` on entry
CapReachedOnEntry(n, cap) == n >= cap

\* the check after the recursive call left out
CapNeverReached(n, cap) == FALSE

\* `results.len() >= max_results` after a child returned
CapReachedAfterChild(n, cap) == n >= cap

\* `results.len() > max_results / 10 && remaining_letters > 5`
EarlyExit(n, cap, remaining_letters) == n > cap \div 10 /\ remaining_letters > 5

\* the recursive call starts after the word just chosen
NextIdx(i) == i + 1

\* the recursive call starts at the head of the table
FirstIdx(i) == 1

\* the start index handed to the recursive call
ChildStartIdx(i) == i

\* the pop left out
KeepCurrent(cur) == cur

\* `current.pop()`
PopCurrent(cur) == SubSeq(cur, 1, Len(cur) - 1)

Frame(avail, start, remaining, cur) ==
    [available |-> avail, start_idx |-> start, remaining_letters |-> remaining,
     min_word_len |-> 0, i |-> start, at |-> "entry", entered_with |-> cur]

Top == stack[Len(stack)]

SetTop(f) == [stack EXCEPT ![Len(stack)] = f]

\* candidate-table indices of the words of `current`: the loop index of the
\* frame that pushed each of them
CurrentIdx == [k \in 1 .. Len(current) |-> stack[k].i]

Searching == pc = "search" /\ Len(stack) > 0

InLoop == Searching /\ Top.at = "loop" /\ Top.i <= Len(dict_words)

Cand == dict_words[Top.i]

TooLong == Cand.word_len > Top.remaining_letters

Breaks ==
    /\ Cand.word_len < Top.min_word_len
    /\ EarlyExit(Len(results), max_results, Top.remaining_letters)

Usable == can_use_word(Cand.word_freq, Top.available)

Redundant == would_be_redundant(current, Cand.word, seen_signatures)

-----------------------------------------------------------------------------
(* Inputs *)

\* "team", "Meat", "cat", "act", " cat", "ca", "a", "t", "c4t", ""
MasterLines ==
    << <<116, 101, 97, 109>>, <<77, 101, 97, 116>>, <<99, 97, 116>>,
       <<97, 99, 116>>, <<32, 99, 97, 116>>, <<99, 97>>,
       <<97>>, <<116>>, <<99, 52, 116>>, <<>> >>

\* the example word list of the specification: cat, act, ca, at, a, t
ExampleLines ==
    << <<99, 97, 116>>, <<97, 99, 116>>, <<99, 97>>, <<97, 116>>,
       <<97>>, <<116>> >>

\* every selection of at most MaxDictLines lines of MasterLines, in order
Dictionaries ==
    {Pick(MasterLines, c) :
        c \in {d \in SUBSET DOMAIN MasterLines : Cardinality(d) <= MaxDictLines}}
    \cup {ExampleLines}

\* "", " ", "1", "cat", "A cat", "teamcat", "teammeat", "aaaaaaa" and 256 a's
Phrases ==
    { <<>>, <<32>>, <<49>>, <<99, 97, 116>>, <<65, 32, 99, 97, 116>>,
      <<116, 101, 97, 109, 99, 97, 116>>,
      <<116, 101, 97, 109, 109, 101, 97, 116>>,
      Rep(97, 7), Rep(97, U8) }

Caps == (0 .. MaxCap) \cup {DEFAULT_MAX_RESULTS}

NoFreq == [k \in Letters |-> 0]

-----------------------------------------------------------------------------
(* solve_anagrams *)

Init ==
    /\ target \in Phrases
    /\ DICTIONARY \in Dictionaries
    /\ max_results \in Caps
    /\ pc = "start"
    /\ dictionary = <<>>
    /\ target_freq = NoFreq
    /\ target_len = 0
    /\ dict_words = <<>>
    /\ results = <<>>
    /\ current = <<>>
    /\ seen_signatures = {}
    /\ stack = <<>>
    /\ all_anagrams = <<>>
    /\ words_a = <<>>
    /\ words_b = <<>>
    /\ score_a = 0
    /\ score_b = 0

scoreVars == <<words_a, words_b, score_a, score_b>>
inputVars == <<target, DICTIONARY, max_results>>
tableVars == <<dictionary, target_freq, target_len, dict_words>>
searchVars == <<results, current, seen_signatures, stack>>

\* `target.trim().is_empty()`
EmptyInput ==
    /\ pc = "start"
    /\ Len(trim(target)) = 0
    /\ pc' = "err_empty"
    /\ UNCHANGED <<inputVars, tableVars, searchVars, all_anagrams, scoreVars>>

ReadDictionary ==
    /\ pc = "start"
    /\ Len(trim(target)) # 0
    /\ dictionary' = ParseDictionary(DICTIONARY)
    /\ pc' = "parsed"
    /\ UNCHANGED <<inputVars, target_freq, target_len, dict_words, searchVars,
                   all_anagrams, scoreVars>>

DictionaryEmpty ==
    /\ pc = "parsed"
    /\ Len(dictionary) = 0
    /\ pc' = "err_dict"
    /\ UNCHANGED <<inputVars, tableVars, searchVars, all_anagrams, scoreVars>>

\* a build with overflow checks aborts on the `+= 1` of a full u8 counter
OverflowPanic ==
    /\ pc = "parsed"
    /\ Len(dictionary) # 0
    /\ \/ frequency_overflows(target)
       \/ \E k \in DOMAIN dictionary : frequency_overflows(dictionary[k])
    /\ pc' = "panic"
    /\ UNCHANGED <<inputVars, tableVars, searchVars, all_anagrams, scoreVars>>

\* target multiset, candidate table, and the top-level call of the search
Preprocess ==
    /\ pc = "parsed"
    /\ Len(dictionary) # 0
    /\ target_freq' = compute_frequency(target)
    /\ target_len' = count_remaining(target_freq')
    /\ dict_words' = PreprocessDictionary(dictionary, target_freq', target_len')
    /\ stack' = << Frame(target_freq', 1, target_len', <<>>) >>
    /\ results' = <<>>
    /\ current' = <<>>
    /\ seen_signatures' = {}
    /\ pc' = "search"
    /\ UNCHANGED <<inputVars, dictionary, all_anagrams, scoreVars>>

-----------------------------------------------------------------------------
(* find_anagrams_recursive, one step of the active frame at a time *)

\* remaining_letters == 0: record the solution and return
RecordSolution ==
    /\ Searching
    /\ Top.at = "entry"
    /\ Top.remaining_letters = 0
    /\ results' = Append(results,
           [score |-> calculate_quality_score(current), words |-> current,
            idx |-> CurrentIdx])
    /\ seen_signatures' =
           LET sig == create_signature(current)
           IN  IF Len(sig) # 0 THEN seen_signatures \cup {sig}
               ELSE seen_signatures
    /\ stack' = SetTop([Top EXCEPT !.at = "ret"])
    /\ UNCHANGED <<inputVars, tableVars, current, pc, all_anagrams, scoreVars>>

\* results.len() >= max_results on entry: return
CapOnEntry ==
    /\ Searching
    /\ Top.at = "entry"
    /\ Top.remaining_letters # 0
    /\ CapReachedOnEntry(Len(results), max_results)
    /\ stack' = SetTop([Top EXCEPT !.at = "ret"])
    /\ UNCHANGED <<inputVars, tableVars, results, current, seen_signatures, pc,
                   all_anagrams, scoreVars>>

\* compute min_word_len and start the loop at start_idx
BeginLoop ==
    /\ Searching
    /\ Top.at = "entry"
    /\ Top.remaining_letters # 0
    /\ ~CapReachedOnEntry(Len(results), max_results)
    /\ stack' = SetTop([Top EXCEPT
           !.min_word_len = MinWordLen(Len(current), Top.remaining_letters),
           !.i = Top.start_idx,
           !.at = "loop"])
    /\ UNCHANGED <<inputVars, tableVars, results, current, seen_signatures, pc,
                   all_anagrams, scoreVars>>

NextCandidate ==
    /\ stack' = SetTop([Top EXCEPT !.i = Top.i + 1])
    /\ UNCHANGED <<inputVars, tableVars, results, current, seen_signatures, pc,
                   all_anagrams, scoreVars>>

LeaveLoop ==
    /\ stack' = SetTop([Top EXCEPT !.at = "ret"])
    /\ UNCHANGED <<inputVars, tableVars, results, current, seen_signatures, pc,
                   all_anagrams, scoreVars>>

\* the loop ran off the end of the candidate table
LoopEnd ==
    /\ Searching
    /\ Top.at = "loop"
    /\ Top.i > Len(dict_words)
    /\ LeaveLoop

SkipTooLong == InLoop /\ TooLong /\ NextCandidate

BreakShort == InLoop /\ ~TooLong /\ Breaks /\ LeaveLoop

SkipCannotUse == InLoop /\ ~TooLong /\ ~Breaks /\ ~Usable /\ NextCandidate

SkipRedundant ==
    InLoop /\ ~TooLong /\ ~Breaks /\ Usable /\ Redundant /\ NextCandidate

\* push the word and call find_anagrams_recursive on the rest
Recurse ==
    /\ InLoop
    /\ ~TooLong
    /\ ~Breaks
    /\ Usable
    /\ ~Redundant
    /\ current' = Append(current, Cand.word)
    /\ stack' = Append(SetTop([Top EXCEPT !.at = "after"]),
           Frame(subtract_letters(Top.available, Cand.word_freq),
                 ChildStartIdx(Top.i),
                 Top.remaining_letters - Cand.word_len,
                 current'))
    /\ UNCHANGED <<inputVars, tableVars, results, seen_signatures, pc,
                   all_anagrams, scoreVars>>

\* the active call returns to its caller
Return ==
    /\ Searching
    /\ Top.at = "ret"
    /\ stack' = SubSeq(stack, 1, Len(stack) - 1)
    /\ pc' = IF Len(stack) = 1 THEN "rank" ELSE pc
    /\ UNCHANGED <<inputVars, tableVars, results, current, seen_signatures,
                   all_anagrams, scoreVars>>

\* back in the caller: current.pop(), the cap is reached, return
AfterChildCap ==
    /\ Searching
    /\ Top.at = "after"
    /\ CapReachedAfterChild(Len(results), max_results)
    /\ current' = PopCurrent(current)
    /\ stack' = SetTop([Top EXCEPT !.at = "ret"])
    /\ UNCHANGED <<inputVars, tableVars, results, seen_signatures, pc,
                   all_anagrams, scoreVars>>

\* back in the caller: current.pop(), go on with the next sibling
AfterChildNext ==
    /\ Searching
    /\ Top.at = "after"
    /\ ~CapReachedAfterChild(Len(results), max_results)
    /\ current' = PopCurrent(current)
    /\ stack' = SetTop([Top EXCEPT !.at = "loop", !.i = Top.i + 1])
    /\ UNCHANGED <<inputVars, tableVars, results, seen_signatures, pc,
                   all_anagrams, scoreVars>>

\* sort by score, join, deduplicate, truncate
Rank ==
    /\ pc = "rank"
    /\ results' = SortByScore(results)
    /\ all_anagrams' =
           Take(Dedup([k \in DOMAIN results |-> Phrase(results'[k])]),
                PRESENTATION_LIMIT)
    /\ pc' = "done"
    /\ UNCHANGED <<inputVars, tableVars, current, seen_signatures, stack,
                   scoreVars>>

Next ==
    \/ EmptyInput
    \/ ReadDictionary
    \/ DictionaryEmpty
    \/ OverflowPanic
    \/ Preprocess
    \/ RecordSolution
    \/ CapOnEntry
    \/ BeginLoop
    \/ LoopEnd
    \/ SkipTooLong
    \/ BreakShort
    \/ SkipCannotUse
    \/ SkipRedundant
    \/ Recurse
    \/ Return
    \/ AfterChildCap
    \/ AfterChildNext
    \/ Rank

Spec == Init /\ [][Next]_vars

-----------------------------------------------------------------------------
(* calculate_quality_score on its own: two word sequences with the same    *)
(* number of letters, the first with fewer words.  A word sequence is      *)
(* given by how many words of each length of ScoreWordLens it holds, the   *)
(* longest first, as the search produces them; it has at most             *)
(* MaxScoreWords words and MaxScoreLetters letters.                        *)

ScoreWordLens == <<114, 9, 2, 1>>

ShapeCount(c) == c[1] + c[2] + c[3] + c[4]

ShapeLetters(c) ==
    c[1] * ScoreWordLens[1] + c[2] * ScoreWordLens[2]
        + c[3] * ScoreWordLens[3] + c[4] * ScoreWordLens[4]

\* the word sequences of exactly n letters (the shortest length is 1, so the
\* words of the longer lengths fix how many one-letter words there are)
ShapesOfLetters(n) ==
    {c \in {<<c1, c2, c3, n - c1 * ScoreWordLens[1] - c2 * ScoreWordLens[2]
                            - c3 * ScoreWordLens[3]>> :
                c1 \in 0 .. (n \div ScoreWordLens[1]),
                c2 \in 0 .. (n \div ScoreWordLens[2]),
                c3 \in 0 .. Min(n \div ScoreWordLens[3], MaxScoreWords)} :
        /\ c[4] >= 0
        /\ ShapeCount(c) >= 1
        /\ ShapeCount(c) <= MaxScoreWords
        /\ ShapeLetters(c) = n}

ShapeWords(c) ==
    [k \in 1 .. ShapeCount(c) |->
        IF k <= c[1] THEN Rep(97, ScoreWordLens[1])
        ELSE IF k <= c[1] + c[2] THEN Rep(97, ScoreWordLens[2])
        ELSE IF k <= c[1] + c[2] + c[3] THEN Rep(97, ScoreWordLens[3])
        ELSE Rep(97, ScoreWordLens[4])]

ScoreInit ==
    /\ \E n \in 1 .. MaxScoreLetters :
         LET shapes == ShapesOfLetters(n)
         IN  \E a \in shapes, b \in shapes :
                 /\ ShapeCount(a) < ShapeCount(b)
                 /\ words_a = ShapeWords(a)
                 /\ words_b = ShapeWords(b)
    /\ score_a = 0
    /\ score_b = 0
    /\ pc = "score"
    /\ target = <<>>
    /\ DICTIONARY = <<>>
    /\ max_results = DEFAULT_MAX_RESULTS
    /\ dictionary = <<>>
    /\ target_freq = NoFreq
    /\ target_len = 0
    /\ dict_words = <<>>
    /\ results = <<>>
    /\ current = <<>>
    /\ seen_signatures = {}
    /\ stack = <<>>
    /\ all_anagrams = <<>>

ScoreBoth ==
    /\ pc = "score"
    /\ score_a' = calculate_quality_score(words_a)
    /\ score_b' = calculate_quality_score(words_b)
    /\ pc' = "scored"
    /\ UNCHANGED <<inputVars, tableVars, searchVars, all_anagrams, words_a,
                   words_b>>

ScoreNext == ScoreBoth

ScoreSpec == ScoreInit /\ [][ScoreNext]_vars

-----------------------------------------------------------------------------
(* Properties *)

Range(f) == {f[k] : k \in DOMAIN f}

HasNoLetter(s) == \A k \in DOMAIN s : ~is_ascii_alphabetic(s[k])

\* the non-empty pieces of a phrase between its spaces
SplitWords(phrase) ==
    LET cuts == {0, Len(phrase) + 1} \cup {k \in DOMAIN phrase : phrase[k] = 32}
        starts == {k \in cuts : k <= Len(phrase) /\ (k + 1) \notin cuts}
        nth(p) == CHOOSE k \in starts : Cardinality({j \in starts : j < k}) = p - 1
        stop(k) == CHOOSE e \in cuts : e > k /\ \A j \in (k + 1) .. (e - 1) : j \notin cuts
    IN  [p \in 1 .. Cardinality(starts) |-> SubSeq(phrase, nth(p) + 1, stop(nth(p)) - 1)]

PhraseScore(phrase) == calculate_quality_score(SplitWords(phrase))

Occurrences(seq, x) == Cardinality({k \in DOMAIN seq : seq[k] = x})

SameBag(s, t) ==
    Len(s) = Len(t) /\ \A x \in Range(s) \cup Range(t) : Occurrences(s, x) = Occurrences(t, x)

SearchOver == pc \in {"rank", "done"}

\* C1: every returned phrase is an exact-letter anagram of the input: for
\* every letter, the phrase's words hold as many of it as the input's ASCII
\* alphabetic characters do, case-insensitively.
C1_ExactAnagram ==
    pc = "done" =>
        \A p \in DOMAIN all_anagrams : \A k \in Letters :
            LetterOccurrences(all_anagrams[p], k) = LetterOccurrences(target, k)

\* C2: a phrase without any ASCII letter fails with EmptyInput before any
\* dictionary processing: solve_anagrams never gets past its validation.
C2_NoLetterIsEmptyInput ==
    HasNoLetter(target) => pc \in {"start", "err_empty"}

\* C3 as stated: of two word sequences with the same number of letters, the
\* one with fewer words has the strictly higher score, whatever the lengths.
C3_FewerWordsAlwaysWin ==
    pc = "scored" => score_a > score_b

\* C3 as amended: the same, for word sequences of at most 125 letters.
C3_FewerWordsWinUpTo125 ==
    (pc = "scored" /\ SumSeq([k \in DOMAIN words_a |-> Len(words_a[k])]) <= 125)
        => score_a > score_b

TotalLen(words) == SumSeq([k \in DOMAIN words |-> Len(words[k])])

AvgLen(words) == TotalLen(words) \div Len(words)

\* the fewer words win although their lengths are the less balanced ones
C3_Witness ==
    /\ pc = "scored"
    /\ TotalLen(words_a) <= 125
    /\ TotalLen(words_a) >= 100
    /\ Len(words_a) >= 2
    /\ variance_penalty(words_a, AvgLen(words_a))
           > variance_penalty(words_b, AvgLen(words_b)) + 500
    /\ score_a > score_b

\* C4: the returned phrases are ordered by quality score, best first, and a
\* 1-word solution precedes every 2-word solution.
C4_OrderedByScore ==
    pc = "done" =>
        \A i \in DOMAIN all_anagrams : \A j \in DOMAIN all_anagrams :
            /\ i < j => PhraseScore(all_anagrams[i]) >= PhraseScore(all_anagrams[j])
            /\ (Len(SplitWords(all_anagrams[i])) = 1
                    /\ Len(SplitWords(all_anagrams[j])) = 2) => i < j

C4_Witness ==
    /\ pc = "done"
    /\ \E i \in DOMAIN all_anagrams : \E j \in DOMAIN all_anagrams :
           /\ Len(SplitWords(all_anagrams[i])) = 1
           /\ Len(SplitWords(all_anagrams[j])) = 2
           /\ PhraseScore(all_anagrams[i]) > PhraseScore(all_anagrams[j])

\* C5: no phrase text appears twice in the returned sequence.
C5_NoDuplicatePhrase ==
    \A i \in DOMAIN all_anagrams : \A j \in DOMAIN all_anagrams :
        i # j => all_anagrams[i] # all_anagrams[j]

C5_Witness ==
    /\ pc = "done"
    /\ Len(all_anagrams) >= 1
    /\ \E a \in DOMAIN results : \E b \in DOMAIN results :
           a # b /\ results[a].words = results[b].words
    /\ \E k \in DOMAIN DICTIONARY : \E m \in DOMAIN DICTIONARY :
           k # m /\ DICTIONARY[k] # DICTIONARY[m]
               /\ NormaliseLine(DICTIONARY[k]) = NormaliseLine(DICTIONARY[m])


\* how often each candidate is used: one count per candidate-table entry
Multiplicities == [DOMAIN dict_words -> 0 .. target_len]

RECURSIVE LettersUsed(_, _, _)
LettersUsed(m, k, n) ==
    IF n = 0 THEN 0
    ELSE m[n] * dict_words[n].word_freq[k] + LettersUsed(m, k, n - 1)

\* the candidates, taken m[n] times each, use exactly the target's letters
ExactCombination(m) ==
    \A k \in Letters : LettersUsed(m, k, Len(dict_words)) = target_freq[k]

Records(r, m) ==
    \A n \in DOMAIN dict_words : Occurrences(r.words, dict_words[n].word) = m[n]

NoPruningApplies ==
    /\ \A a \in DOMAIN dict_words : \A b \in DOMAIN dict_words :
           a # b => dict_words[a].word # dict_words[b].word
    /\ \A n \in DOMAIN dict_words : dict_words[n].word_len < SUBSTANTIAL_LEN
    /\ 10 * Cardinality({m \in Multiplicities : ExactCombination(m)}) <= max_results

\* C6: with a duplicate-free candidate table of words shorter than 4 letters
\* and no more solutions than a tenth of the cap, the finished search has
\* recorded every exact combination of candidates, each exactly once, and
\* nothing else.
C6_SearchComplete ==
    (SearchOver /\ NoPruningApplies) =>
        /\ \A m \in Multiplicities :
               ExactCombination(m) =>
                   Cardinality({p \in DOMAIN results : Records(results[p], m)}) = 1
        /\ Len(results) = Cardinality({m \in Multiplicities : ExactCombination(m)})

C6_Witness ==
    /\ pc = "done"
    /\ NoPruningApplies
    /\ Len(results) >= 3
    /\ \E p \in DOMAIN results : Len(results[p].words) >= 2
    /\ \E p \in DOMAIN results : Len(results[p].words) = 1

\* C7: with a cap of at least 1 the number of recorded solutions never
\* exceeds the cap, and once it equals the cap no step appends a word to the
\* partial sequence, opens a frame or moves a frame to another sibling:
\* every frame only returns.
C7_CapIsHardBound ==
    /\ [](max_results >= 1 => Len(results) <= max_results)
    /\ [][(max_results >= 1 /\ Searching /\ Len(results) = max_results) =>
             /\ Len(current') <= Len(current)
             /\ Len(stack') <= Len(stack)
             /\ \A k \in DOMAIN stack' :
                    /\ stack'[k].i = stack[k].i
                    /\ stack'[k].at \in {stack[k].at, "ret"}]_vars

C7_Witness ==
    /\ Searching
    /\ max_results >= 1
    /\ Len(results) = max_results
    /\ Len(stack) >= 2
    /\ \E k \in DOMAIN stack :
           /\ stack[k].at = "after"
           /\ \E n \in (stack[k].i + 1) .. Len(dict_words) :
                  can_use_word(dict_words[n].word_freq, stack[k].available)

\* C8: the words of the partial sequence sit at non-decreasing candidate
\* indices, every call starts at the index of the word just chosen, and no
\* two recorded solutions are the same candidate-table entries in a
\* different order.
C8_NonDecreasingWalk ==
    /\ Len(current) <= Len(stack) \/ SearchOver
    /\ \A k \in 1 .. (Len(current) - 1) : CurrentIdx[k] <= CurrentIdx[k + 1]
    /\ \A k \in 2 .. Len(stack) :
           /\ stack[k].start_idx = stack[k - 1].i
           /\ stack[k].i >= stack[k].start_idx
    /\ \A a \in DOMAIN results : \A b \in DOMAIN results :
           SameBag(results[a].idx, results[b].idx) => results[a].idx = results[b].idx

C8_Witness ==
    /\ Searching
    /\ Len(current) >= 2
    /\ CurrentIdx[1] < CurrentIdx[2]
    /\ \E a \in DOMAIN results :
           Len(results[a].idx) >= 2 /\ results[a].idx[1] < results[a].idx[2]

\* C9: a call that returns leaves `current` as it was when the call was
\* entered, and no step changes the available letters, the remaining-letter
\* count or the start index of a frame that stays on the stack.
C9_BacktrackingRestores ==
    /\ []((Searching /\ Top.at = "ret") => current = Top.entered_with)
    /\ [][\A k \in DOMAIN stack \cap DOMAIN stack' :
             /\ stack'[k].available = stack[k].available
             /\ stack'[k].remaining_letters = stack[k].remaining_letters
             /\ stack'[k].start_idx = stack[k].start_idx
             /\ stack'[k].entered_with = stack[k].entered_with]_vars
    /\ [][Len(stack') < Len(stack) =>
             /\ current' = current
             /\ Len(results') >= Len(results)
             /\ seen_signatures \subseteq seen_signatures']_vars

C9_Witness ==
    /\ Searching
    /\ Len(stack) >= 2
    /\ Top.at = "ret"
    /\ Top.remaining_letters # 0
    /\ Len(results) >= 1
    /\ current = Top.entered_with

ResultSignatures == {create_signature(results[a].words) : a \in DOMAIN results}

\* C10: two different recorded solutions never have the same non-empty
\* signature, and the seen-signature set is exactly the set of non-empty
\* signatures of the recorded solutions.
C10_SignaturesUnique ==
    /\ \A a \in DOMAIN results : \A b \in DOMAIN results :
           (a # b /\ Len(create_signature(results[a].words)) # 0)
               => create_signature(results[a].words) # create_signature(results[b].words)
    /\ seen_signatures = ResultSignatures \ {<<>>}

C10_Witness ==
    /\ InLoop
    /\ ~TooLong
    /\ Usable
    /\ Redundant
    /\ Cardinality(seen_signatures) >= 1
    /\ Len(results) >= 1

====
